---- MODULE Spec2Model ----
(***************************************************************************)
(* Model of estimation_auto_7cars.py: the pricing function                 *)
(* calcul_offre_max, the Streamlit form main(), the functions              *)
(* generer_excel_estimation and enregistrer_historique and the CSV history *)
(* log.                                                                    *)
(*                                                                         *)
(* Layout of the source file.  The file is read as it is indented, with    *)
(* the one stray space in front of HISTO_CSV (line 121) taken away, without*)
(* which Python does not compile it:                                       *)
(*   - generer_excel_estimation (57-120) has as its whole body the nested  *)
(*     definition of generer_pdf_estimation (61-120): a call binds that    *)
(*     local name and returns None.  generer_pdf_estimation is not a name  *)
(*     of the module and nothing calls it.                                 *)
(*   - enregistrer_historique (124-177) writes the log (124-152), then     *)
(*     builds the one-row sheet "Estimation" (154-177) and returns it.     *)
(*                                                                         *)
(* Arithmetic.  Python floats are IEEE 754 binary64; the model computes    *)
(* every operation of the source with the same rounding (to nearest, ties  *)
(* to even), on naturals of any size.                                      *)
(***************************************************************************)
EXTENDS Integers, Sequences, FiniteSets, TLC

(***************************************************************************)
(* Natural numbers of any size: little-endian sequences of limbs in        *)
(* 0..BASE-1 with no most-significant zero limb; <<>> is 0.                *)
(***************************************************************************)
BASE == 16384

LimbBits == 14

\* the limb of weight BASE^(i-1), 0 outside the sequence
NLimbe(A, i) == IF i >= 1 /\ i <= Len(A) THEN A[i] ELSE 0

\* the limbs of A without the most-significant zero limbs
NNorm(A) ==
    IF \A i \in 1..Len(A) : A[i] = 0 THEN <<>>
    ELSE SubSeq(A, 1, CHOOSE i \in 1..Len(A) :
                          A[i] /= 0 /\ \A j \in (i + 1)..Len(A) : A[j] = 0)

RECURSIVE NFromInt(_)
NFromInt(k) == IF k = 0 THEN <<>> ELSE <<k % BASE>> \o NFromInt(k \div BASE)

RECURSIVE NToInt(_)
NToInt(A) == IF A = <<>> THEN 0 ELSE Head(A) + BASE * NToInt(Tail(A))

\* a carry enters limb i of A + B: a limb below it overflows and every limb
\* between the two passes the carry on
NRetenue(A, B, i) ==
    \E j \in 1..(i - 1) :
        /\ NLimbe(A, j) + NLimbe(B, j) >= BASE
        /\ \A l \in (j + 1)..(i - 1) : NLimbe(A, l) + NLimbe(B, l) >= BASE - 1

NAddLong(A, B, n) ==
    NNorm([i \in 1..(n + 1) |->
             (NLimbe(A, i) + NLimbe(B, i)
              + (IF NRetenue(A, B, i) THEN 1 ELSE 0)) % BASE])

NAdd(A, B) == NAddLong(A, B, IF Len(A) < Len(B) THEN Len(B) ELSE Len(A))

\* a borrow is taken from limb i of A - B
NEmprunt(A, B, i) ==
    \E j \in 1..(i - 1) :
        /\ NLimbe(A, j) < NLimbe(B, j)
        /\ \A l \in (j + 1)..(i - 1) : NLimbe(A, l) <= NLimbe(B, l)

\* A - B for A >= B
NSub(A, B) ==
    NNorm([i \in 1..Len(A) |->
             (A[i] - NLimbe(B, i)
              - (IF NEmprunt(A, B, i) THEN 1 ELSE 0)) % BASE])

\* -1, 0, 1 as A <, =, > B
NCmpEn(A, B, i) == IF A[i] < B[i] THEN -1 ELSE 1

NCmp(A, B) ==
    IF Len(A) < Len(B) THEN -1
    ELSE IF Len(A) > Len(B) THEN 1
    ELSE IF \A i \in 1..Len(A) : A[i] = B[i] THEN 0
    ELSE NCmpEn(A, B, CHOOSE i \in 1..Len(A) :
                          A[i] /= B[i] /\ \A j \in (i + 1)..Len(A) : A[j] = B[j])

\* A * d for one limb d: the low halves of the limb products plus their
\* high halves one limb up
NMulSmall(A, d) ==
    IF d = 0 \/ A = <<>> THEN <<>>
    ELSE NAdd([i \in 1..Len(A) |-> (A[i] * d) % BASE],
              [i \in 1..(Len(A) + 1) |-> IF i = 1 THEN 0 ELSE (A[i - 1] * d) \div BASE])

RECURSIVE NMul(_, _)
NMul(A, B) ==
    IF A = <<>> \/ B = <<>> THEN <<>>
    ELSE NAdd(NMulSmall(A, Head(B)), NNorm(<<0>> \o NMul(A, Tail(B))))

NOdd(A) == A /= <<>> /\ Head(A) % 2 = 1

Pow2(k) == 2^k

\* number of bits of a limb
BitsOfLimb(x) ==
    CHOOSE b \in 0..LimbBits : x < Pow2(b) /\ (b = 0 \/ x >= Pow2(b - 1))

\* number of bits of A
NBits(A) ==
    IF A = <<>> THEN 0 ELSE LimbBits * (Len(A) - 1) + BitsOfLimb(A[Len(A)])

\* A * 2^r and floor(A / 2^r) for r < LimbBits
NShlBits(A, r) ==
    NNorm([i \in 1..(Len(A) + 1) |->
             (NLimbe(A, i) % Pow2(LimbBits - r)) * Pow2(r)
             + NLimbe(A, i - 1) \div Pow2(LimbBits - r)])

NShrBits(A, r) ==
    NNorm([i \in 1..Len(A) |->
             A[i] \div Pow2(r) + (NLimbe(A, i + 1) % Pow2(r)) * Pow2(LimbBits - r)])

NHalf(A) == NShrBits(A, 1)

\* A * 2^k
NShl(A, k) ==
    IF A = <<>> \/ k = 0 THEN A
    ELSE [i \in 1..(k \div LimbBits) |-> 0] \o NShlBits(A, k % LimbBits)

\* floor(A / 2^k), with st: a bit below the cut was set (or st was)
NShrSticky(A, k, st) ==
    IF k = 0 \/ A = <<>> THEN [n |-> A, st |-> st]
    ELSE IF k \div LimbBits >= Len(A) THEN [n |-> <<>>, st |-> TRUE]
    ELSE [n  |-> NShrBits(SubSeq(A, k \div LimbBits + 1, Len(A)), k % LimbBits),
          st |-> \/ st
                 \/ \E i \in 1..(k \div LimbBits) : A[i] /= 0
                 \/ A[k \div LimbBits + 1] % Pow2(k % LimbBits) /= 0]

\* The integer nearest to A / 2^k (k >= 1), ties to even; st says the exact
\* value lies strictly above A.
NRoundQ(q, guard, st) ==
    IF guard /\ (st \/ NOdd(q)) THEN NAdd(q, <<1>>) ELSE q

NRoundCut(cut) == NRoundQ(NHalf(cut.n), NOdd(cut.n), cut.st)

NRoundShr(A, k, st) == NRoundCut(NShrSticky(A, k - 1, st))

\* Long division limb by limb.  The divisor is first shifted so that its
\* top limb has its top bit set; a digit estimated from the top limbs of the
\* running remainder is then at most two above the true digit.
NEstime(R, D) ==
    IF (NLimbe(R, Len(D) + 1) * BASE + NLimbe(R, Len(D))) \div D[Len(D)] > BASE - 1
    THEN BASE - 1
    ELSE (NLimbe(R, Len(D) + 1) * BASE + NLimbe(R, Len(D))) \div D[Len(D)]

\* the largest digit d with d * D <= R, from an estimate not below it
RECURSIVE NChiffre(_, _, _)
NChiffre(R, D, d) ==
    IF NCmp(NMulSmall(D, d), R) <= 0 THEN d ELSE NChiffre(R, D, d - 1)

\* the step for one limb, from the quotient hq and the remainder r2 of
\* the limbs above it
NDivFin(r2, hq, D, d) ==
    [q |-> NNorm(<<d>> \o hq), r |-> NSub(r2, NMulSmall(D, d))]

NDivChiffre(r2, hq, D) == NDivFin(r2, hq, D, NChiffre(r2, D, NEstime(r2, D)))

NDivPas(a0, h, D) ==
    IF h.r = <<>> /\ a0 = 0
    THEN [q |-> NNorm(<<0>> \o h.q), r |-> <<>>]
    ELSE NDivChiffre(NNorm(<<a0>> \o h.r), h.q, D)

RECURSIVE NDivNorm(_, _)
NDivNorm(A, D) ==
    IF Len(A) < Len(D) THEN [q |-> <<>>, r |-> A]
    ELSE NDivPas(Head(A), NDivNorm(Tail(A), D), D)

NDivDenorm(h, k) == [q |-> h.q, r |-> NShrSticky(h.r, k, FALSE).n]

NDivDecale(A, D, k) == NDivDenorm(NDivNorm(NShl(A, k), NShl(D, k)), k)

\* quotient and remainder of A by D (D /= 0)
NDivMod(A, D) == NDivDecale(A, D, LimbBits - BitsOfLimb(D[Len(D)]))

(***************************************************************************)
(* Python floats (IEEE 754 binary64, round to nearest, ties to even).  A   *)
(* float is [s, m, e] with value s * m * 2^e, s in {1, -1}, m an odd       *)
(* natural of at most 53 bits; zero is [1, <<>>, 0].  The values of the    *)
(* program stay far inside the normal range, so no exponent limit, no      *)
(* subnormal, infinity or NaN is modelled.                                 *)
(***************************************************************************)
Mantisse == 53

FZero == [s |-> 1, m |-> <<>>, e |-> 0]

\* number of zero bits below the lowest set bit of a nonzero limb, of a
\* nonzero natural
ZerosDeLimb(x) ==
    CHOOSE t \in 0..(LimbBits - 1) : x % Pow2(t) = 0 /\ (x \div Pow2(t)) % 2 = 1

NZerosBas(A, i) == LimbBits * (i - 1) + ZerosDeLimb(A[i])

NZeros(A) ==
    NZerosBas(A, CHOOSE i \in 1..Len(A) :
                     A[i] /= 0 /\ \A j \in 1..(i - 1) : A[j] = 0)

\* strip the trailing zero bits of a mantissa
FCanonDe(s, A, e, z) == [s |-> s, m |-> NShrSticky(A, z, FALSE).n, e |-> e + z]

FCanon(s, A, e) == IF A = <<>> THEN FZero ELSE FCanonDe(s, A, e, NZeros(A))

\* the float nearest to s * (A + st) * 2^e, st a nonzero part below one unit
FRound(s, A, e, st) ==
    LET k == NBits(A) - Mantisse
    IN  IF k <= 0 THEN FCanon(s, A, e)
        ELSE FCanon(s, NRoundShr(A, k, st), e + k)

Entier(k) ==
    IF k < 0 THEN FCanon(-1, NFromInt(-k), 0) ELSE FCanon(1, NFromInt(k), 0)

FNeg(a) == IF a.m = <<>> THEN a ELSE [a EXCEPT !.s = -a.s]

\* s1 * A + s2 * B, times 2^e, rounded; c is the comparison of A and B
FAddSigne(s1, A, s2, B, e, c) ==
    IF s1 = s2 THEN FRound(s1, NAdd(A, B), e, FALSE)
    ELSE IF c = 0 THEN FZero
    ELSE IF c > 0 THEN FRound(s1, NSub(A, B), e, FALSE)
    ELSE FRound(s2, NSub(B, A), e, FALSE)

FAddAligne(s1, A, s2, B, e) == FAddSigne(s1, A, s2, B, e, NCmp(A, B))

FAddExp(a, b, e) ==
    FAddAligne(a.s, NShl(a.m, a.e - e), b.s, NShl(b.m, b.e - e), e)

FAdd(a, b) ==
    IF a.m = <<>> THEN b
    ELSE IF b.m = <<>> THEN a
    ELSE FAddExp(a, b, IF a.e < b.e THEN a.e ELSE b.e)

FSub(a, b) == FAdd(a, FNeg(b))

FMul(a, b) ==
    IF a.m = <<>> \/ b.m = <<>> THEN FZero
    ELSE FRound(a.s * b.s, NMul(a.m, b.m), a.e + b.e, FALSE)

\* a / b, b /= 0: the quotient is taken to 55 bits or more, the remainder
\* is the sticky part
\* the float nearest to s * (A / B) * 2^e, A and B naturals, B /= 0: the
\* quotient of A * 2^k by B has at least Mantisse + 2 bits
FQuotFin(s, qr, e) == FRound(s, qr.q, e, qr.r /= <<>>)

FQuotK(s, A, B, e, k) == FQuotFin(s, NDivMod(NShl(A, k), B), e - k)

FQuot(s, A, B, e) ==
    IF A = <<>> THEN FZero
    ELSE IF Mantisse + 2 + NBits(B) < NBits(A) THEN FQuotK(s, A, B, e, 0)
    ELSE FQuotK(s, A, B, e, Mantisse + 2 + NBits(B) - NBits(A))

FDiv(a, b) == FQuot(a.s * b.s, a.m, b.m, a.e - b.e)

FLt(a, b) == LET d == FSub(a, b) IN d.m /= <<>> /\ d.s = -1

FLeq(a, b) == ~FLt(b, a)

\* a decimal literal num/den of the source: the float nearest to it
Litteral(num, den) == FDiv(Entier(num), Entier(den))

\* The integer nearest to a * scale, ties to even, as the "f" format of
\* Python rounds the exact value of the float (scale = 1, 10 or 100).
RoundHalfEven(a, scale) ==
    LET A == NMulSmall(a.m, scale)
    IN  a.s * NToInt(IF a.e >= 0 THEN NShl(A, a.e)
                     ELSE NRoundShr(A, -a.e, FALSE))

(***************************************************************************)
(* Decimal text of a number, as to_csv writes it and read_csv reads it.    *)
(* A numeral is [t |-> "nombre", s, ent, dec]: the sign, the digits before *)
(* the point and the digits after it, most significant first; dec = <<>>   *)
(* is a numeral without a point (an integer).                              *)
(***************************************************************************)
RECURSIVE NPow10(_)
NPow10(k) ==
    IF k <= 4 THEN NFromInt(10^k) ELSE NMulSmall(NPow10(k - 4), 10000)

\* the decimal digits of a natural, <<>> for 0, taken four at a time
NChiffresBloc(r) == <<r \div 1000, (r \div 100) % 10, (r \div 10) % 10, r % 10>>

SansZerosDeTete(ch) ==
    IF \A i \in 1..Len(ch) : ch[i] = 0 THEN <<>>
    ELSE SubSeq(ch, CHOOSE i \in 1..Len(ch) :
                        ch[i] /= 0 /\ \A j \in 1..(i - 1) : ch[j] = 0, Len(ch))

RECURSIVE NBlocs(_)
NBlocsPas(qr) == NBlocs(qr.q) \o NChiffresBloc(NToInt(qr.r))

NBlocs(A) == IF A = <<>> THEN <<>> ELSE NBlocsPas(NDivMod(A, <<10000>>))

NChiffres(A) == SansZerosDeTete(NBlocs(A))

\* the natural of decimal digits, taken four at a time
RECURSIVE IntDeChiffres(_)
IntDeChiffres(ch) ==
    IF ch = <<>> THEN 0
    ELSE 10 * IntDeChiffres(SubSeq(ch, 1, Len(ch) - 1)) + ch[Len(ch)]

RECURSIVE NDeChiffres(_)
NDeChiffres(ch) ==
    IF Len(ch) <= 4 THEN NFromInt(IntDeChiffres(ch))
    ELSE NAdd(NMulSmall(NDeChiffres(SubSeq(ch, 1, Len(ch) - 4)), 10000),
              NFromInt(IntDeChiffres(SubSeq(ch, Len(ch) - 3, Len(ch)))))

Numeral(s, ent, dec) == [t |-> "nombre", s |-> s, ent |-> ent, dec |-> dec]

\* str(k) of a Python int
NumeralEntier(k) ==
    IF k = 0 THEN Numeral(1, <<0>>, <<>>)
    ELSE IF k < 0 THEN Numeral(-1, NChiffres(NFromInt(-k)), <<>>)
    ELSE Numeral(1, NChiffres(NFromInt(k)), <<>>)

\* floor(|a| * 10^k) and the nearest integer to |a| * 10^k (ties to even)
Plancher(a, k) ==
    LET A == NMul(a.m, NPow10(k))
    IN  IF a.e >= 0 THEN NShl(A, a.e) ELSE NShrSticky(A, -a.e, FALSE).n

Arrondi(a, k) ==
    LET A == NMul(a.m, NPow10(k))
    IN  IF a.e >= 0 THEN NShl(A, a.e) ELSE NRoundShr(A, -a.e, FALSE)

\* number of decimal places before the first significant digit of a
\* float 0 < |a| < 1
RECURSIVE ZerosDeTete(_, _)
ZerosDeTete(a, j) ==
    IF Plancher(a, j + 1) /= <<>> THEN j ELSE ZerosDeTete(a, j + 1)

\* number of digits of the integer part; for |a| < 1, minus the number of
\* zeros that follow the point
Ordre(a) ==
    IF Plancher(a, 0) /= <<>> THEN Len(NChiffres(Plancher(a, 0)))
    ELSE -ZerosDeTete(a, 0)

SansZerosFinaux(ch) ==
    IF Len(ch) <= 1 THEN ch
    ELSE SubSeq(ch, 1, CHOOSE i \in 1..Len(ch) :
                           /\ i = 1 \/ ch[i] /= 0
                           /\ \A j \in (i + 1)..Len(ch) : ch[j] = 0)

Zeros(n) == [i \in 1..n |-> 0]

\* |a| rounded to k decimal places reads back as a
RelitExact(a, k) == FQuot(1, Arrondi(a, k), NPow10(k), 0) = [a EXCEPT !.s = 1]

\* the numeral of the digits ch, the last k of them after the point
NumeralDecimal(s, ch, k) ==
    Numeral(s, SubSeq(ch, 1, Len(ch) - k),
            SansZerosFinaux(SubSeq(ch, Len(ch) - k + 1, Len(ch))))

ReprChiffres(s, ch0, k) ==
    NumeralDecimal(s, Zeros(k + 1 - Len(ch0)) \o ch0, k)

ReprDecimales(a, k) == ReprChiffres(a.s, NChiffres(Arrondi(a, k)), k)

\* the number of decimal places of n significant digits, at least one
Decimales(n, o) == IF n - o < 1 THEN 1 ELSE n - o

ReprOrdre(a, o) ==
    ReprDecimales(a, IF RelitExact(a, Decimales(15, o)) THEN Decimales(15, o)
                     ELSE IF RelitExact(a, Decimales(16, o)) THEN Decimales(16, o)
                     ELSE Decimales(17, o))

\* repr(a) of a Python float with 1e-4 <= |a| < 1e16 or a = 0 (positional
\* notation): the shortest decimal that reads back as a, at least one
\* decimal place.  A decimal of 15 significant digits or fewer that reads
\* back as a is a rounded to 15 digits; otherwise 16, then 17 digits.
Repr(a) ==
    IF a.m = <<>> THEN Numeral(1, <<0>>, <<0>>) ELSE ReprOrdre(a, Ordre(a))

\* number = number * 10. + digit, over the digits taken.  The first
\* ChiffresExacts digits make an integer below 2^53, which the double
\* holds exactly; the steps after them round.
ChiffresExacts == 15

RECURSIVE AccumuleSur(_, _)
AccumuleSur(number, ch) ==
    IF ch = <<>> THEN number
    ELSE FAdd(FMul(AccumuleSur(number, SubSeq(ch, 1, Len(ch) - 1)), Entier(10)),
              Entier(ch[Len(ch)]))

Accumule(ch) ==
    IF Len(ch) <= ChiffresExacts THEN FCanon(1, NDeChiffres(ch), 0)
    ELSE AccumuleSur(FCanon(1, NDeChiffres(SubSeq(ch, 1, ChiffresExacts)), 0),
                     SubSeq(ch, ChiffresExacts + 1, Len(ch)))

\* the double 1e<n> of the parser's table of powers of ten
Dix(n) == FRound(1, NPow10(n), 0, FALSE)

MaxChiffres == 17

\* The float read_csv gives for a numeral: pandas' default converter
\* (float_precision=None, precise_xstrtod of the C parser) accumulates at
\* most 17 digits in a double, drops the others, and scales by a power of
\* ten; it is not the correctly rounded value for every text.
XstrtodEchelle(number, exposant) ==
    IF exposant > 0 THEN FMul(number, Dix(exposant))
    ELSE FDiv(number, Dix(-exposant))

XstrtodPris(s, pris, nb_ent) ==
    XstrtodEchelle(IF s < 0 THEN FNeg(Accumule(pris)) ELSE Accumule(pris),
                   IF nb_ent >= Len(pris) THEN nb_ent - Len(pris)
                   ELSE -(Len(pris) - nb_ent))

XstrtodChiffres(s, tous, nb_ent) ==
    XstrtodPris(s, SubSeq(tous, 1, IF Len(tous) < MaxChiffres THEN Len(tous)
                                   ELSE MaxChiffres), nb_ent)

Xstrtod(num) == XstrtodChiffres(num.s, num.ent \o num.dec, Len(num.ent))

(***************************************************************************)
(* Constants, lines 8-10                                                   *)
(***************************************************************************)
MARGE_NETTE == Litteral(15, 100)

FRAIS_FIXES == 350

TVA_TAUX == Litteral(81, 1000)

Un == Entier(1)

Zero == FZero

\* The two options of the radio widget, lines 274-277
TVA_MARGE == "TVA sur marge (achat à un particulier)"

TVA_STANDARD == "TVA standard (achat à un garage/entreprise)"

(***************************************************************************)
(* calcul_offre_max, lines 35-54                                           *)
(***************************************************************************)
\* the literal 1.05 of line 38
SECURITE == Litteral(105, 100)

Couts_parentheses(frais_remise) ==
    FMul(FAdd(Entier(FRAIS_FIXES), frais_remise), SECURITE)

\* line 38
Couts(frais_remise) ==
    FAdd(Entier(FRAIS_FIXES), FMul(frais_remise, SECURITE))

\* line 39
MargeVoulue(prix_vente) == FMul(prix_vente, MARGE_NETTE)

RegimeMarge_sauf_standard(type_tva) == type_tva /= TVA_STANDARD

\* line 41
RegimeMarge(type_tva) == type_tva = TVA_MARGE

\* line 42
Coeff == FDiv(TVA_TAUX, FAdd(Un, TVA_TAUX))

MargeBrute_plus(marge_voulue, couts) ==
    FDiv(FAdd(marge_voulue, couts), FAdd(Un, Coeff))

\* line 43
MargeBrute(marge_voulue, couts) ==
    FDiv(FAdd(marge_voulue, couts), FSub(Un, Coeff))

\* line 48
HtVente(prix_vente) == FDiv(prix_vente, FAdd(Un, TVA_TAUX))

HtAchat_marge_apres_frais(ht_vente, couts) ==
    FSub(FSub(ht_vente, couts), FMul(FSub(ht_vente, couts), MARGE_NETTE))

\* line 49
HtAchat(ht_vente, couts) ==
    FSub(FSub(ht_vente, FMul(ht_vente, MARGE_NETTE)), couts)

\* lines 44-46 and 54, marge_brute being the value of line 43
BrancheMarge(prix_vente, marge_voulue, couts, marge_brute) ==
    [prix_achat   |-> FSub(prix_vente, marge_brute),
     marge_voulue |-> marge_voulue,
     tva_etat     |-> FMul(marge_brute, Coeff),
     info_tva     |-> "TVA sur Marge",
     couts        |-> couts]

\* lines 49-52 and 54, ht_vente being the value of line 48
BrancheStandard(prix_vente, marge_voulue, couts, ht_vente) ==
    [prix_achat   |-> FMul(HtAchat(ht_vente, couts), FAdd(Un, TVA_TAUX)),
     marge_voulue |-> marge_voulue,
     tva_etat     |-> FSub(prix_vente, ht_vente),
     info_tva     |-> "TVA Standard",
     couts        |-> couts]

\* lines 41-54, couts and marge_voulue being the values of lines 38-39
Regime(prix_vente, type_tva, couts, marge_voulue) ==
    IF RegimeMarge(type_tva)
    THEN BrancheMarge(prix_vente, marge_voulue, couts,
                      MargeBrute(marge_voulue, couts))
    ELSE BrancheStandard(prix_vente, marge_voulue, couts, HtVente(prix_vente))

calcul_offre_max(prix_vente, frais_remise, type_tva) ==
    Regime(prix_vente, type_tva, Couts(frais_remise), MargeVoulue(prix_vente))

(***************************************************************************)
(* format_chf, lines 13-15                                                 *)
(***************************************************************************)
Abs(x) == IF x < 0 THEN -x ELSE x

Pad3(k) ==
    IF k < 10 THEN "00" \o ToString(k)
    ELSE IF k < 100 THEN "0" \o ToString(k)
    ELSE ToString(k)

\* "{:,}" on a natural number, with "," already replaced by "'"
RECURSIVE Milliers(_)
Milliers(k) ==
    IF k < 1000 THEN ToString(k)
    ELSE Milliers(k \div 1000) \o "'" \o Pad3(k % 1000)

format_chf(val) ==
    LET r == RoundHalfEven(val, 1)
    IN  (IF val.s < 0 /\ val.m /= <<>> THEN "-" ELSE "")
        \o Milliers(Abs(r)) \o " CHF"

\* The value to one decimal place, in tenths.
Dixiemes(a) == RoundHalfEven(a, 10)

\* The value to the centime, in hundredths.
Centimes(a) == RoundHalfEven(a, 100)

(***************************************************************************)
(* State                                                                   *)
(***************************************************************************)
VARIABLES
    marque, modele, annee, km,      \* widgets of "1. Données véhicule"
    prix_vente, frais_remise,       \* widgets of "2. Hypothèses de revente"
    type_tva, calculer,             \* radio and button of the last run
    message,                        \* st.info / st.error / st.warning shown
    resultat,                       \* what calcul_offre_max returned to main
    carte, detail,                  \* offer card and "Détail financier"
    telechargement,                 \* the call of st.download_button
    histo,                          \* the file HISTO_CSV
    appel, retour                   \* a direct call of a function, its return

vars == <<marque, modele, annee, km, prix_vente, frais_remise, type_tva,
          calculer, message, resultat, carte, detail, telechargement, histo,
          appel, retour>>

form == <<marque, modele, annee, km, prix_vente, frais_remise, type_tva,
          calculer, message, resultat, carte, detail, telechargement>>

\* Python's None, and a file that does not exist
Aucun == [aucun |-> TRUE]

Absent == [existe |-> FALSE, lignes |-> <<>>]

\* number of data rows of the log
NbLignes(h) == Len(h.lignes)

(***************************************************************************)
(* Bounds of the model and the values the inputs are drawn from            *)
(***************************************************************************)
\* step of the resale price widget, line 262, and of the refurbishment
\* cost widget, line 269
PrixPas == 500

FraisPas == 100

MaxPasPrix == 10

MaxPasFrais == 8

MaxHorloge == 1

MaxLignes == 3

\* default values of the two widgets, lines 261 and 268
PrixDefaut == 22000

FraisDefaut == 1500

PrixSaisis == {Entier(PrixPas * k) : k \in 0..MaxPasPrix} \cup {Entier(PrixDefaut)}

FraisSaisis == {Entier(FraisPas * k) : k \in 0..MaxPasFrais} \cup {Entier(FraisDefaut)}

Marques == {"Audi"}

Modeles == {"A3", "N/A"}

Annees == {2019}

Kms == {80000}

OptionsTva == {TVA_MARGE, TVA_STANDARD}

(***************************************************************************)
(* generer_excel_estimation, lines 57-120.  The body is the definition of  *)
(* the local function generer_pdf_estimation and nothing else: the call    *)
(* falls off the end and returns None, whatever the arguments.             *)
(***************************************************************************)
generer_excel_estimation(a) == Aucun

(***************************************************************************)
(* main, lines 207-366: one run of the script.  Streamlit runs it again on *)
(* every interaction, with the widgets' current values; calculer is TRUE   *)
(* in the run a click on the button triggers.  telechargement is the call  *)
(* of st.download_button (lines 357-362) with the data it is given.        *)
(***************************************************************************)
PrixInvalide_strict(prix) == FLt(prix, Zero)

\* line 289
PrixInvalide(prix) == FLeq(prix, Zero)

\* line 296
OffreInfaisable(prix_achat) == FLeq(prix_achat, Zero)

\* keyword arguments of the call at lines 341-353
ArgsExport(ma, mo, an, k, prix, frais, tva, r) ==
    [marque |-> ma, modele |-> mo, annee |-> an, km |-> k,
     prix_vente |-> prix, frais_remise |-> frais, type_tva |-> tva,
     prix_achat |-> r.prix_achat, marge_voulue |-> r.marge_voulue,
     tva_etat |-> r.tva_etat, couts |-> r.couts]

\* lines 296-362: what main shows for the result r of calcul_offre_max
Resultat(ma, mo, an, k, prix, frais, tva, r) ==
    /\ resultat' = r
    /\ IF OffreInfaisable(r.prix_achat)
       THEN /\ message' = "warning"
            /\ carte' = Aucun /\ detail' = Aucun
            /\ telechargement' = Aucun
       ELSE /\ message' = "aucun"
            /\ carte' = [marque |-> ma, modele |-> mo, annee |-> an, km |-> k,
                         offre |-> format_chf(r.prix_achat)]
            /\ detail' = [prix_vente |-> format_chf(prix),
                          marge_voulue |-> format_chf(r.marge_voulue),
                          info_tva |-> r.info_tva,
                          tva_etat |-> format_chf(r.tva_etat),
                          couts |-> format_chf(r.couts)]
            /\ telechargement' =
                   [data |-> generer_excel_estimation(
                                 ArgsExport(ma, mo, an, k, prix, frais, tva, r))]

Main(ma, mo, an, k, prix, frais, tva, clic) ==
    /\ marque' = ma /\ modele' = mo /\ annee' = an /\ km' = k
    /\ prix_vente' = prix /\ frais_remise' = frais /\ type_tva' = tva
    /\ calculer' = clic
    /\ IF ~clic
       THEN /\ message' = "info"
            /\ resultat' = Aucun /\ carte' = Aucun /\ detail' = Aucun
            /\ telechargement' = Aucun
       ELSE IF PrixInvalide(prix)
       THEN /\ message' = "error"
            /\ resultat' = Aucun /\ carte' = Aucun /\ detail' = Aucun
            /\ telechargement' = Aucun
       ELSE Resultat(ma, mo, an, k, prix, frais, tva,
                     calcul_offre_max(prix, frais, tva))
    /\ UNCHANGED <<histo, appel, retour>>

\* The form as its first run leaves it: the widgets' default values (lines
\* 245-278), the button not clicked, the hint of line 364.
FormulaireInitial ==
    /\ marque = "Audi" /\ modele = "A3" /\ annee = 2019 /\ km = 80000
    /\ prix_vente = Entier(PrixDefaut) /\ frais_remise = Entier(FraisDefaut)
    /\ type_tva = TVA_MARGE
    /\ calculer = FALSE
    /\ message = "info"
    /\ resultat = Aucun /\ carte = Aucun /\ detail = Aucun
    /\ telechargement = Aucun

Init ==
    /\ FormulaireInitial
    /\ histo = Absent
    /\ appel = Aucun /\ retour = Aucun

(***************************************************************************)
(* Interactions with the form.  Each one changes one widget and makes      *)
(* Streamlit run main() again; the button is TRUE only in the run its      *)
(* click triggers.                                                         *)
(***************************************************************************)
SaisirVehicule(mo) ==
    Main(marque, mo, annee, km, prix_vente, frais_remise, type_tva, FALSE)

SaisirPrix(prix) ==
    Main(marque, modele, annee, km, prix, frais_remise, type_tva, FALSE)

SaisirFrais(frais) ==
    Main(marque, modele, annee, km, prix_vente, frais, type_tva, FALSE)

ChoisirTva(tva) ==
    Main(marque, modele, annee, km, prix_vente, frais_remise, tva, FALSE)

Cliquer ==
    Main(marque, modele, annee, km, prix_vente, frais_remise, type_tva, TRUE)

Next ==
    \/ \E mo \in Modeles : SaisirVehicule(mo)
    \/ \E prix \in PrixSaisis : SaisirPrix(prix)
    \/ \E frais \in FraisSaisis : SaisirFrais(frais)
    \/ \E tva \in OptionsTva : ChoisirTva(tva)
    \/ Cliquer

Spec == Init /\ [][Next]_vars

(***************************************************************************)
(* calcul_offre_max called on its own (specification SpecCalc): the        *)
(* arguments are drawn in the initial state, the action applies the        *)
(* function.  type_tva is any string: the two labels of the form and       *)
(* labels the form cannot produce.                                         *)
(***************************************************************************)
Libelles ==
    OptionsTva \cup {"TVA sur marge", "tva sur marge (achat à un particulier)"}

InitCalc ==
    /\ FormulaireInitial
    /\ histo = Absent
    /\ \E prix \in PrixSaisis, frais \in FraisSaisis, tva \in Libelles :
          appel = [fn |-> "calcul_offre_max", prix_vente |-> prix,
                   frais_remise |-> frais, type_tva |-> tva]
    /\ retour = Aucun

AppelCalcul ==
    /\ retour = Aucun
    /\ retour' = calcul_offre_max(appel.prix_vente, appel.frais_remise,
                                  appel.type_tva)
    /\ UNCHANGED <<form, histo, appel>>

NextCalc == AppelCalcul

SpecCalc == InitCalc /\ [][NextCalc]_vars

(***************************************************************************)
(* The same call with amounts typed into the number inputs instead of      *)
(* stepped (lines 258-270: min_value 0.0 and no max_value, any double >= 0 *)
(* can be entered): a resale price of 1e18 and a refurbishment cost of     *)
(* 1e-18 besides the stepped ones (specification SpecFrais).               *)
(***************************************************************************)
Milliard == 1000000000

GrandPrix == FMul(Entier(Milliard), Entier(Milliard))

FraisInfime == FDiv(Entier(1), GrandPrix)

PrixTapes == PrixSaisis \cup {GrandPrix}

FraisTapes == FraisSaisis \cup {FraisInfime}

InitFrais ==
    /\ FormulaireInitial
    /\ histo = Absent
    /\ \E prix \in PrixTapes, frais \in FraisTapes, tva \in Libelles :
          appel = [fn |-> "calcul_offre_max", prix_vente |-> prix,
                   frais_remise |-> frais, type_tva |-> tva]
    /\ retour = Aucun

SpecFrais == InitFrais /\ [][NextCalc]_vars

(***************************************************************************)
(* The clock.  datetime.now() gives an instant, here a number of seconds   *)
(* after midnight of one day; the two strftime calls print it.             *)
(***************************************************************************)
Horloge == {45 * k : k \in 0..MaxHorloge}

Pad2(k) == IF k < 10 THEN "0" \o ToString(k) ELSE ToString(k)

\* strftime("%Y-%m-%d %H:%M:%S"), line 129
strftime_histo(t) ==
    "2025-01-15 " \o Pad2(t \div 3600) \o ":" \o Pad2((t \div 60) % 60)
                  \o ":" \o Pad2(t % 60)

\* strftime("%d.%m.%Y %H:%M"), line 154
strftime_feuille(t) ==
    "15.01.2025 " \o Pad2(t \div 3600) \o ":" \o Pad2((t \div 60) % 60)

(***************************************************************************)
(* Values of a DataFrame cell and texts of a CSV cell.  A text that reads  *)
(* as a number is kept as its numeral (the digits, leading zeros           *)
(* included); any other text as its characters.                            *)
(***************************************************************************)
NaN == [t |-> "nan"]

Str(texte) == [t |-> "str", v |-> texte]

Int64(k) == [t |-> "int", v |-> k]

Float64(x) == [t |-> "float", v |-> x]

Texte(chaine) == [t |-> "texte", v |-> chaine]

\* The strings of the model that read as a number
TexteNumerique == ("007" :> Numeral(1, <<0, 0, 7>>, <<>>))

\* the text of a Python str
TexteDe(chaine) ==
    IF chaine \in DOMAIN TexteNumerique THEN TexteNumerique[chaine]
    ELSE Texte(chaine)

\* Texts pd.read_csv (line 147, default na_values) reads as a missing value
VALEURS_NA ==
    {"", "#N/A", "#N/A N/A", "#NA", "-1.#IND", "-1.#QNAN", "-NaN", "-nan",
     "1.#IND", "1.#QNAN", "<NA>", "N/A", "NA", "NULL", "NaN", "None", "n/a",
     "nan", "null"}

EstNA(c) == c.t = "texte" /\ c.v \in VALEURS_NA

EstNombre(c) == c.t = "nombre"

\* int(text) of a numeral without a point
ValeurEntiere(num) == num.s * NToInt(NDeChiffres(num.ent))

\* pd.read_csv on one column: the dtype is inferred from all the cells of
\* the column: int64 when every cell is an integer numeral, float64 when
\* every cell is a numeral or missing, object (the texts, NaN for the
\* missing ones) otherwise.
LireColonne(col) ==
    LET pleines   == {i \in DOMAIN col : ~EstNA(col[i])}
        numerique == \A i \in pleines : EstNombre(col[i])
        entiere   == /\ pleines = DOMAIN col
                     /\ \A i \in pleines : col[i].dec = <<>>
    IN  [i \in DOMAIN col |->
            IF i \notin pleines THEN NaN
            ELSE IF ~numerique THEN Str(col[i])
            ELSE IF entiere THEN Int64(ValeurEntiere(col[i]))
            ELSE Float64(Xstrtod(col[i]))]

\* line 147
read_csv(h) ==
    LET colonne(c) == [i \in DOMAIN h.lignes |-> h.lignes[i][c]]
    IN  [i \in DOMAIN h.lignes |->
            [c \in DOMAIN h.lignes[i] |-> LireColonne(colonne(c))[i]]]

\* to_csv on one cell (line 152, default na_rep and float format)
EcrireCellule(cell) ==
    CASE cell.t = "nan"   -> Texte("")
      [] cell.t = "str"   -> cell.v
      [] cell.t = "int"   -> NumeralEntier(cell.v)
      [] cell.t = "float" -> Repr(cell.v)

\* line 152
to_csv(df) ==
    [existe |-> TRUE,
     lignes |-> [i \in DOMAIN df |->
                    [c \in DOMAIN df[i] |-> EcrireCellule(df[i][c])]]]

(***************************************************************************)
(* enregistrer_historique, lines 124-177.  The file HISTO_CSV is read in   *)
(* full by pd.read_csv, the new row is concatenated and the whole frame is *)
(* written back by to_csv; then the one-row sheet "Estimation" is built,   *)
(* with a second reading of the clock, and returned.  histo.lignes holds   *)
(* the texts of the file's data rows.                                      *)
(***************************************************************************)
GARAGE == "7 Cars Garage Sàrl"

\* lines 131-144, as the one-row frame of line 151
LigneHistorique(a, now) ==
       ("Date estimation" :> Str(TexteDe(strftime_histo(now))))
    @@ ("Marque" :> Str(TexteDe(a.marque)))
    @@ ("Modèle" :> Str(TexteDe(a.modele)))
    @@ ("Année" :> Int64(a.annee))
    @@ ("Kilométrage" :> Int64(a.km))
    @@ ("Prix revente" :> Float64(a.prix_vente))
    @@ ("Frais remise" :> Float64(a.frais_remise))
    @@ ("Type TVA" :> Str(TexteDe(a.type_tva)))
    @@ ("Prix achat max" :> Float64(a.prix_achat))
    @@ ("Marge nette" :> Float64(a.marge_voulue))
    @@ ("TVA" :> Float64(a.tva_etat))
    @@ ("Frais totaux" :> Float64(a.couts))

\* lines 154-177: the frame written to the sheet
FeuilleEstimation(a, now) ==
       ("Date estimation" :> Str(TexteDe(strftime_feuille(now))))
    @@ ("Garage" :> Str(TexteDe(GARAGE)))
    @@ ("Marque" :> Str(TexteDe(a.marque)))
    @@ ("Modèle" :> Str(TexteDe(a.modele)))
    @@ ("Année" :> Int64(a.annee))
    @@ ("Kilométrage" :> Int64(a.km))
    @@ ("Origine TVA" :> Str(TexteDe(a.type_tva)))
    @@ ("Prix de revente estimé (CHF)" :> Float64(a.prix_vente))
    @@ ("Frais remise en état (CHF)" :> Float64(a.frais_remise))
    @@ ("Frais fixes + sécurité (CHF)" :> Float64(a.couts))
    @@ ("Marge visée nette (CHF)" :> Float64(a.marge_voulue))
    @@ ("TVA à reverser (CHF)" :> Float64(a.tva_etat))
    @@ ("Offre d'achat maximale (CHF)" :> Float64(a.prix_achat))

\* the call: the file it leaves and the value it returns; now and now2 are
\* the two readings of the clock (lines 129 and 154).  The function runs
\* from the read of line 147 to the write of line 152 in one synchronous
\* call of a single-threaded script, and the file takes no lock: a call is
\* one step, and two processes writing the same file are not modelled.
enregistrer_historique(a, now, now2) ==
    /\ histo' = to_csv(Append(IF histo.existe THEN read_csv(histo) ELSE <<>>,
                               LigneHistorique(a, now)))
    /\ retour' = FeuilleEstimation(a, now2)

(***************************************************************************)
(* The two functions called on their own.  SpecExport: one call of one of  *)
(* them, its arguments drawn in the initial state among those main passes  *)
(* (lines 341-353: an offer > 0).  SpecHisto: successive calls of          *)
(* enregistrer_historique on the same file.                                *)
(***************************************************************************)
TextesModele == {"A3", "N/A", "007"}

ArgsDirects(mo, prix, tva) ==
    ArgsExport("Audi", mo, 2019, 80000, prix, Entier(FraisDefaut), tva,
               calcul_offre_max(prix, Entier(FraisDefaut), tva))

\* the functions of the module that build an export or write the log
Fonctions == {"generer_excel_estimation", "enregistrer_historique"}

AppelInitial(fn, a, now) ==
    /\ ~OffreInfaisable(a.prix_achat)
    /\ appel = [fn |-> fn, args |-> a, now |-> now, fait |-> FALSE]

InitExport ==
    /\ FormulaireInitial
    /\ histo = Absent
    /\ \E fn \in Fonctions, mo \in TextesModele, prix \in PrixSaisis,
          tva \in OptionsTva, now \in Horloge :
          /\ ~PrixInvalide(prix)
          /\ AppelInitial(fn, ArgsDirects(mo, prix, tva), now)
    /\ retour = Aucun

AppelExcel ==
    /\ ~appel.fait /\ appel.fn = "generer_excel_estimation"
    /\ retour' = generer_excel_estimation(appel.args)
    /\ appel' = [appel EXCEPT !.fait = TRUE]
    /\ UNCHANGED <<form, histo>>

AppelHistorique ==
    /\ ~appel.fait /\ appel.fn = "enregistrer_historique"
    /\ \E now2 \in Horloge :
          /\ appel.now <= now2
          /\ enregistrer_historique(appel.args, appel.now, now2)
    /\ appel' = [appel EXCEPT !.fait = TRUE]
    /\ UNCHANGED form

NextExport == AppelExcel \/ AppelHistorique

SpecExport == InitExport /\ [][NextExport]_vars

\* the resale price of the successive calls of SpecHisto
PrixHisto == 3500

EnregistrerArgs(a, now, now2) ==
    /\ enregistrer_historique(a, now, now2)
    /\ appel' = [fn |-> "enregistrer_historique", args |-> a, now |-> now,
                 fait |-> TRUE]

Enregistrer(mo, now, now2) ==
    /\ NbLignes(histo) < MaxLignes
    /\ now <= now2
    /\ EnregistrerArgs(ArgsDirects(mo, Entier(PrixHisto), TVA_MARGE), now, now2)
    /\ UNCHANGED form

NextHisto ==
    \E mo \in TextesModele, now \in Horloge, now2 \in Horloge :
        Enregistrer(mo, now, now2)

SpecHisto == Init /\ [][NextHisto]_vars

(***************************************************************************)
(* Properties of the form (specification Spec)                             *)
(***************************************************************************)
\* C1: every click on the calculate button that passes validation (resale
\* price > 0) and yields an offer > 0 adds exactly one row to the history log.
C1_ClicAjouteUneLigne ==
    [][(/\ calculer'
        /\ FLt(Zero, prix_vente')
        /\ FLt(Zero, calcul_offre_max(prix_vente', frais_remise', type_tva').prix_achat))
       => NbLignes(histo') = NbLignes(histo) + 1]_vars

\* C2: a click with a resale price <= 0 shows the blocking error and nothing
\* else happens: calcul_offre_max is not invoked, no result is displayed, no
\* export is generated and the history log is not written.
C2_PrixInvalideBloque ==
    [][(calculer' /\ FLeq(prix_vente', Zero)) =>
          /\ message' = "error"
          /\ resultat' = Aucun
          /\ carte' = Aucun /\ detail' = Aucun
          /\ telechargement' = Aucun
          /\ histo' = histo]_vars

C2_Witness ==
    calculer /\ prix_vente = Zero /\ message = "error"

\* C3: a click with a resale price > 0 never fails; an offer <= 0 gives the
\* warning and neither card, detail nor export, and card, detail and export
\* are produced exactly when the offer is > 0.
C3_OffreInfaisableAvertit ==
    (calculer /\ FLt(Zero, prix_vente)) =>
        /\ resultat /= Aucun
        /\ FLeq(resultat.prix_achat, Zero) =>
              /\ message = "warning"
              /\ carte = Aucun /\ detail = Aucun /\ telechargement = Aucun
        /\ FLt(Zero, resultat.prix_achat) =>
              /\ message /= "warning" /\ message /= "error"
              /\ carte /= Aucun /\ detail /= Aucun
              /\ telechargement /= Aucun
              /\ telechargement.data /= Aucun

(***************************************************************************)
(* Properties of calcul_offre_max (specification SpecCalc)                 *)
(***************************************************************************)
\* The call of the worked example: resale price 22000, refurbishment 1500.
ExempleMarge ==
    /\ retour /= Aucun
    /\ appel.prix_vente = Entier(22000) /\ appel.frais_remise = Entier(1500)
    /\ appel.type_tva = "TVA sur marge (achat à un particulier)"

ExempleStandard ==
    /\ retour /= Aucun
    /\ appel.prix_vente = Entier(22000) /\ appel.frais_remise = Entier(1500)
    /\ appel.type_tva = "TVA standard (achat à un garage/entreprise)"

\* C4 as stated: in the MARGIN example costs = 1925.0, target margin =
\* 3300.0, gross margin = 5651.9 and maximum purchase price = 16348.1.
C4_Original ==
    ExempleMarge =>
        /\ Dixiemes(retour.couts) = 19250
        /\ Dixiemes(retour.marge_voulue) = 33000
        /\ Dixiemes(MargeBrute(retour.marge_voulue, retour.couts)) = 56519
        /\ Dixiemes(retour.prix_achat) = 163481

\* C4 amended: in the MARGIN example costs = 1925.0, target margin = 3300.0,
\* gross margin = 5648.2 and maximum purchase price = 16351.8, each to one
\* decimal place.
C4_ExempleMarge ==
    ExempleMarge =>
        /\ Dixiemes(retour.couts) = 19250
        /\ Dixiemes(retour.marge_voulue) = 33000
        /\ Dixiemes(FSub(appel.prix_vente, retour.prix_achat)) = 56482
        /\ Dixiemes(MargeBrute(retour.marge_voulue, retour.couts)) = 56482
        /\ Dixiemes(retour.prix_achat) = 163518

C4_Witness == ExempleMarge /\ retour.info_tva = "TVA sur Marge"

\* C5 as stated: in the STANDARD example netResale = 20351.5, netPurchase =
\* 15373.8 and maximum purchase price = 16629.1.
C5_Original ==
    ExempleStandard =>
        /\ Dixiemes(HtVente(appel.prix_vente)) = 203515
        /\ Dixiemes(HtAchat(HtVente(appel.prix_vente), retour.couts)) = 153738
        /\ Dixiemes(retour.prix_achat) = 166291

\* C5 amended: in the STANDARD example netResale = 20351.5, netPurchase =
\* 15373.8 and maximum purchase price = 16619.1, each to one decimal place.
C5_ExempleStandard ==
    ExempleStandard =>
        /\ Dixiemes(HtVente(appel.prix_vente)) = 203515
        /\ Dixiemes(FSub(appel.prix_vente, retour.tva_etat)) = 203515
        /\ Dixiemes(HtAchat(HtVente(appel.prix_vente), retour.couts)) = 153738
        /\ Dixiemes(retour.prix_achat) = 166191

C5_Witness == ExempleStandard /\ retour.info_tva = "TVA Standard"

\* C6: for every resale price > 0 and refurbishment cost >= 0, buying at the
\* returned offer and selling at the resale price leaves, after the returned
\* costs and VAT, the returned target margin, to the centime.  MARGIN: price
\* - offer - VAT payable - costs; STANDARD: (price - VAT payable) - offer /
\* (1 + VAT rate) - costs.
C6_MargePreservee ==
    (retour /= Aucun /\ FLt(Zero, appel.prix_vente)) =>
        LET profit ==
                IF retour.info_tva = "TVA sur Marge"
                THEN FSub(FSub(FSub(appel.prix_vente, retour.prix_achat),
                               retour.tva_etat), retour.couts)
                ELSE FSub(FSub(FSub(appel.prix_vente, retour.tva_etat),
                               FDiv(retour.prix_achat, Litteral(1081, 1000))),
                          retour.couts)
        IN  /\ Centimes(profit) = Centimes(retour.marge_voulue)
            /\ Centimes(retour.marge_voulue) =
                   15 * RoundHalfEven(appel.prix_vente, 1)

(***************************************************************************)
(* Property of calcul_offre_max on typed amounts (specification SpecFrais) *)
(***************************************************************************)
\* C7 as stated: with the resale price and the regime fixed the offer is
\* strictly decreasing in the refurbishment cost, and a refurbishment cost
\* of 0 gives total costs of exactly 350.
C7_Original ==
    retour /= Aucun =>
        /\ \A frais2 \in FraisTapes :
              FLt(appel.frais_remise, frais2) =>
                  FLt(calcul_offre_max(appel.prix_vente, frais2,
                                       appel.type_tva).prix_achat,
                      retour.prix_achat)
        /\ appel.frais_remise = Zero => retour.couts = Entier(350)

\* C7 amended: with the resale price and the regime fixed the offer never
\* increases with the refurbishment cost (a larger cost gives an offer that
\* is lower or, when the doubles absorb the difference, equal), and a
\* refurbishment cost of 0 gives total costs of exactly 350.
C7_JamaisCroissantEnFrais ==
    retour /= Aucun =>
        /\ \A frais2 \in FraisTapes :
              FLt(appel.frais_remise, frais2) =>
                  FLeq(calcul_offre_max(appel.prix_vente, frais2,
                                        appel.type_tva).prix_achat,
                       retour.prix_achat)
        /\ appel.frais_remise = Zero => retour.couts = Entier(350)

\* a call whose refurbishment cost of 1e-18 is absorbed: the offer is the
\* offer at cost 0
C7_Witness ==
    /\ retour /= Aucun
    /\ appel.frais_remise = FraisInfime
    /\ appel.type_tva = "TVA standard (achat à un garage/entreprise)"
    /\ FLt(Zero, appel.prix_vente)
    /\ retour.prix_achat =
           calcul_offre_max(appel.prix_vente, Zero, appel.type_tva).prix_achat
    /\ retour.couts = Entier(350)

\* C10: the MARGIN path is taken only for the exact label "TVA sur marge
\* (achat à un particulier)"; every other label takes the STANDARD path and
\* is reported as "TVA Standard"; every call returns one path's results.
C10_DeuxRegimes ==
    retour /= Aucun =>
        LET prix  == appel.prix_vente
            frais == appel.frais_remise
        IN  /\ DOMAIN retour =
                  {"prix_achat", "marge_voulue", "tva_etat", "info_tva", "couts"}
            /\ appel.type_tva = "TVA sur marge (achat à un particulier)" =>
                  /\ retour.info_tva = "TVA sur Marge"
                  /\ retour.prix_achat =
                         FSub(prix, MargeBrute(MargeVoulue(prix), Couts(frais)))
                  /\ retour.tva_etat =
                         FMul(MargeBrute(MargeVoulue(prix), Couts(frais)), Coeff)
            /\ appel.type_tva /= "TVA sur marge (achat à un particulier)" =>
                  /\ retour.info_tva = "TVA Standard"
                  /\ retour.prix_achat =
                         FMul(HtAchat(HtVente(prix), Couts(frais)),
                              FAdd(Un, TVA_TAUX))
                  /\ retour.tva_etat = FSub(prix, HtVente(prix))

C10_Witness ==
    /\ retour /= Aucun
    /\ appel.type_tva = "TVA sur marge"
    /\ retour.info_tva = "TVA Standard"

(***************************************************************************)
(* Properties of the exports and of the log (SpecExport, SpecHisto)        *)
(***************************************************************************)
\* The field set of the export record schema
SchemaExport ==
    {"timestamp", "dealership name", "brand", "model", "year", "mileage",
     "VAT regime label", "resale price", "refurbishment cost", "total costs",
     "target margin", "VAT payable", "maximum purchase offer"}

\* The schema field a column of the sheet or of the log carries
ChampsDe(libelle) ==
    CASE libelle = "Date estimation" -> {"timestamp"}
      [] libelle = "Garage" -> {"dealership name"}
      [] libelle = "Marque" -> {"brand"}
      [] libelle = "Modèle" -> {"model"}
      [] libelle = "Année" -> {"year"}
      [] libelle = "Kilométrage" -> {"mileage"}
      [] libelle \in {"Origine TVA", "Type TVA"} -> {"VAT regime label"}
      [] libelle \in {"Prix de revente estimé (CHF)", "Prix revente"} ->
            {"resale price"}
      [] libelle \in {"Frais remise en état (CHF)", "Frais remise"} ->
            {"refurbishment cost"}
      [] libelle \in {"Frais fixes + sécurité (CHF)", "Frais totaux"} ->
            {"total costs"}
      [] libelle \in {"Marge visée nette (CHF)", "Marge nette"} ->
            {"target margin"}
      [] libelle \in {"TVA à reverser (CHF)", "TVA"} -> {"VAT payable"}
      [] libelle \in {"Offre d'achat maximale (CHF)", "Prix achat max"} ->
            {"maximum purchase offer"}
      [] OTHER -> {}

ChampsPortes(doc) == UNION {ChampsDe(libelle) : libelle \in DOMAIN doc}

\* The three artefacts of the claim and the function that makes each
Exportateurs ==
    {"generer_excel_estimation", "generer_pdf_estimation",
     "enregistrer_historique"}

\* C8: the spreadsheet, the PDF and the row of the history log each carry
\* exactly the 13 fields of the export record schema, with the values the
\* caller passed: each of the three is made by a function of the module,
\* the spreadsheet returned and the row written have the 13 fields and the
\* caller's values.
C8_TreizeChamps ==
    (appel /= Aucun /\ appel.fait) =>
        LET a == appel.args
        IN  /\ Exportateurs \subseteq Fonctions
            /\ appel.fn = "generer_excel_estimation" =>
                  /\ retour /= Aucun
                  /\ ChampsPortes(retour) = SchemaExport
                  /\ Cardinality(DOMAIN retour) = 13
                  /\ retour["Marque"] = Str(TexteDe(a.marque))
                  /\ retour["Modèle"] = Str(TexteDe(a.modele))
                  /\ retour["Année"] = Int64(a.annee)
                  /\ retour["Kilométrage"] = Int64(a.km)
                  /\ retour["Origine TVA"] = Str(TexteDe(a.type_tva))
                  /\ retour["Prix de revente estimé (CHF)"] = Float64(a.prix_vente)
                  /\ retour["Frais remise en état (CHF)"] = Float64(a.frais_remise)
                  /\ retour["Frais fixes + sécurité (CHF)"] = Float64(a.couts)
                  /\ retour["Marge visée nette (CHF)"] = Float64(a.marge_voulue)
                  /\ retour["TVA à reverser (CHF)"] = Float64(a.tva_etat)
                  /\ retour["Offre d'achat maximale (CHF)"] = Float64(a.prix_achat)
            /\ appel.fn = "enregistrer_historique" =>
                  LET ligne == histo.lignes[Len(histo.lignes)]
                  IN  /\ ChampsPortes(ligne) = SchemaExport
                      /\ ligne["Marque"] = TexteDe(a.marque)
                      /\ ligne["Modèle"] = TexteDe(a.modele)
                      /\ ligne["Type TVA"] = TexteDe(a.type_tva)
                      /\ Xstrtod(ligne["Prix revente"]) = a.prix_vente
                      /\ Xstrtod(ligne["Prix achat max"]) = a.prix_achat

\* C9: a call of enregistrer_historique leaves the log it found with exactly
\* one row added at the end: the earlier rows keep their values and their
\* position, nothing is deduplicated, and a missing file counts as an empty
\* log.
C9_AjoutSeul ==
    [][histo' /= histo =>
          /\ histo'.existe
          /\ Len(histo'.lignes) = Len(histo.lignes) + 1
          /\ SubSeq(histo'.lignes, 1, Len(histo.lignes)) = histo.lignes
          /\ histo'.lignes[Len(histo'.lignes)] =
                 to_csv(<<LigneHistorique(appel'.args, appel'.now)>>).lignes[1]]_vars

====
